---------------------------- MODULE Spec2Model ----------------------------
(***************************************************************************)
(* Model of wg-routes.py: the switch that adds or removes the three routes *)
(* which send a macOS host's IPv4 traffic through a Wireguard client VM.   *)
(*                                                                         *)
(* Text is modelled at the level the program's regular expressions need:   *)
(* a token (an address, a destination, a flags column, a host name) is a   *)
(* sequence of one-character strings, a routing-table line is a record of  *)
(* its first three whitespace-separated columns, and a line of command     *)
(* output is a sequence of words.                                          *)
(***************************************************************************)
EXTENDS Integers, Sequences, FiniteSets, TLC

VARIABLES
    table,      \* the OS routing table, as the rows `netstat -rn` lists
    file,       \* the config file: WG_CLIENT, WG_SERVER, DEFAULT_GW values
    pc,         \* position of the current invocation of main()
    rcmd,       \* the command of the current / last invocation
    conf,       \* the conf dict parse_config() filled
    results,    \* route_update: one record per command run so far
    found,      \* route_status: found_h1, found_h2, found_gw
    err,        \* the exception that ended the invocation, or NoErr
    table0,     \* the routing table when the invocation started
    prev,       \* summary of the invocation before the current one
    arg,        \* input of the function under unit check
    ret         \* its result

vars == <<table, file, pc, rcmd, conf, results, found, err, table0,
          prev, arg, ret>>

-----------------------------------------------------------------------------
(* Characters and tokens *)

Digits == {"0", "1", "2", "3", "4", "5", "6", "7", "8", "9"}

Letters ==
    {"a", "b", "c", "d", "e", "f", "g", "h", "i", "j", "k", "l", "m", "n",
     "o", "p", "q", "r", "s", "t", "u", "v", "w", "x", "y", "z",
     "A", "B", "C", "D", "E", "F", "G", "H", "I", "J", "K", "L", "M", "N",
     "O", "P", "Q", "R", "S", "T", "U", "V", "W", "X", "Y", "Z"}

\* \w of Python's re module
WordChars == Digits \cup Letters \cup {"_"}

Range(s) == {s[i] : i \in 1..Len(s)}

Dot == <<".">>

\* a.b.c.d from its four octets
IP(a, b, c, d) == a \o Dot \o b \o Dot \o c \o Dot \o d

DigitVal(ch) ==
    CASE ch = "0" -> 0 [] ch = "1" -> 1 [] ch = "2" -> 2 [] ch = "3" -> 3
      [] ch = "4" -> 4 [] ch = "5" -> 5 [] ch = "6" -> 6 [] ch = "7" -> 7
      [] ch = "8" -> 8 [] ch = "9" -> 9

-----------------------------------------------------------------------------
(* The IPv4 pattern  (?:[0-2]?\d{1,2}\.){3}[0-2]?\d{1,2}  *)

\* lengths n such that s[i..i+n-1] matches [0-2]?\d{1,2}
OctetLens(s, i) ==
    {n \in 1..3 :
        /\ i + n - 1 <= Len(s)
        /\ \A k \in i..(i + n - 1) : s[k] \in Digits
        /\ n = 3 => s[i] \in {"0", "1", "2"}}

\* positions right after a match of [0-2]?\d{1,2}\. that starts at i
GroupEnds(s, i) ==
    {i + n + 1 : n \in {m \in OctetLens(s, i) :
                           i + m <= Len(s) /\ s[i + m] = "."}}

\* positions where the fourth octet starts, for a match that starts at i
LastOctetStarts(s, i) ==
    UNION {UNION {GroupEnds(s, j2) : j2 \in GroupEnds(s, j1)} :
              j1 \in GroupEnds(s, i)}

\* index of the last character of each match of the pattern starting at i
IPv4MatchEnds(s, i) ==
    UNION {{j3 + n - 1 : n \in OctetLens(s, j3)} :
              j3 \in LastOctetStarts(s, i)}

\* re.search(pattern, s): the pattern matches somewhere inside s
IPv4Search(s) == \E i \in 1..Len(s) : IPv4MatchEnds(s, i) # {}

\* the pattern between two runs of whitespace: it matches the whole token
IPv4Token(s) == Len(s) > 0 /\ Len(s) \in IPv4MatchEnds(s, 1)

\* re.search of a config value used as a pattern against a whole column:
\* every character stands for itself except '.', which matches any character
ColumnMatch(pat, tok) ==
    /\ Len(pat) = Len(tok)
    /\ \A i \in 1..Len(pat) : pat[i] = "." \/ pat[i] = tok[i]

EndsWith(tok, suffix) ==
    /\ Len(tok) >= Len(suffix)
    /\ \A i \in 1..Len(suffix) : tok[Len(tok) - Len(suffix) + i] = suffix[i]

-----------------------------------------------------------------------------
(* resolve() *)

NoErr == "none"
NoAnswer == <<"?">>      \* gethostbyname raised: the name has no address

\* answer is what socket.gethostbyname(host) would give
resolve(host, answer) ==
    IF ":" \in Range(host)
    THEN [ok |-> FALSE, ip |-> <<>>, err |-> "IPv6"]
    ELSE IF IPv4Search(host)
    THEN [ok |-> TRUE, ip |-> host, err |-> NoErr]
    ELSE IF answer = NoAnswer
    THEN [ok |-> FALSE, ip |-> <<>>, err |-> "gaierror"]
    ELSE IF answer = <<>> \/ ~IPv4Search(answer)
    THEN [ok |-> FALSE, ip |-> <<>>, err |-> "CouldNotResolve"]
    ELSE [ok |-> TRUE, ip |-> answer, err |-> NoErr]

-----------------------------------------------------------------------------
(* Routing-table rows and get_default_gw() *)

\* the first three columns of a line of `netstat -rn`; the line goes on with
\* the Refs, Use and Netif columns, so whitespace follows the flags
Row(d, g, f) == [dest |-> d, gw |-> g, flags |-> f]

NoRow == Row(<<>>, <<>>, <<>>)

TokDefault == <<"d", "e", "f", "a", "u", "l", "t">>
Tok01      == <<"0", "/", "1">>
Tok128     == <<"1", "2", "8", ".", "0", "/", "1">>

\* 'default\s+((?:[0-2]?\d{1,2}\.){3}[0-2]?\d{1,2})\s+(\w+)\s' found in a line
DefaultLineMatch(row) ==
    /\ EndsWith(row.dest, TokDefault)
    /\ IPv4Token(row.gw)
    /\ row.flags # <<>>
    /\ Range(row.flags) \subseteq WordChars

\* mutant: the flags are looked for in the order U, G
FirstMissingFlagUG(flags) ==
    IF "U" \notin Range(flags) THEN "U"
    ELSE IF "G" \notin Range(flags) THEN "G"
    ELSE ""

FirstMissingFlag(flags) ==
    IF "G" \notin Range(flags) THEN "G"
    ELSE IF "U" \notin Range(flags) THEN "U"
    ELSE ""

get_default_gw(tbl) ==
    LET hits == {i \in 1..Len(tbl) : DefaultLineMatch(tbl[i])}
    IN  IF hits = {}
        THEN [ok |-> FALSE, gw |-> <<>>, err |-> "CouldNotParse", flag |-> ""]
        ELSE LET first == CHOOSE i \in hits : \A j \in hits : i <= j
                 gw    == tbl[first].gw
                 flags == tbl[first].flags
             IN  IF FirstMissingFlag(flags) # ""
                 THEN [ok |-> FALSE, gw |-> gw, err |-> "MissingFlag",
                       flag |-> FirstMissingFlag(flags)]
                 ELSE [ok |-> TRUE, gw |-> gw, err |-> NoErr, flag |-> ""]

-----------------------------------------------------------------------------
(* route_status() *)

MatchH1(row, c) == row.dest = Tok01 /\ ColumnMatch(c.WG_CLIENT, row.gw)
MatchH2(row, c) == row.dest = Tok128 /\ ColumnMatch(c.WG_CLIENT, row.gw)
MatchGw(row, c) ==
    ColumnMatch(c.WG_SERVER, row.dest) /\ ColumnMatch(c.DEFAULT_GW, row.gw)

NoFound == [h1 |-> NoRow, h2 |-> NoRow, gw |-> NoRow]

\* mutant: a pattern that already has a row keeps it
StatusLineKeepFirst(acc, row, c) ==
    IF MatchH1(row, c)
    THEN (IF acc.h1 = NoRow THEN [acc EXCEPT !.h1 = row] ELSE acc)
    ELSE IF MatchH2(row, c)
    THEN (IF acc.h2 = NoRow THEN [acc EXCEPT !.h2 = row] ELSE acc)
    ELSE IF MatchGw(row, c)
    THEN (IF acc.gw = NoRow THEN [acc EXCEPT !.gw = row] ELSE acc)
    ELSE acc

\* the body of the loop over the lines, for one line
StatusLine(acc, row, c) ==
    IF MatchH1(row, c) THEN [acc EXCEPT !.h1 = row]
    ELSE IF MatchH2(row, c) THEN [acc EXCEPT !.h2 = row]
    ELSE IF MatchGw(row, c) THEN [acc EXCEPT !.gw = row]
    ELSE acc

RECURSIVE StatusScan(_, _, _, _)
StatusScan(tbl, c, i, acc) ==
    IF i > Len(tbl) THEN acc
    ELSE StatusScan(tbl, c, i + 1, StatusLine(acc, tbl[i], c))

route_status(tbl, c) == StatusScan(tbl, c, 1, NoFound)

-----------------------------------------------------------------------------
(* route_update(): the commands and what is made of their output *)

Net0   == <<"0", ".", "0", ".", "0", ".", "0", "/", "1">>
Net128 == <<"1", "2", "8", ".", "0", ".", "0", ".", "0", "/", "1">>

\* mutant: the direction is never switched to delete
UpdateCmdAlwaysAdd(r) == "add"

update_cmd(r) == IF r = "down" THEN "delete" ELSE "add"

RouteCmd(op, d, g) == [op |-> op, dest |-> d, gw |-> g]

\* mutant: the server route comes first
PlanServerFirst(r, c) ==
    << RouteCmd(update_cmd(r), c.WG_SERVER, c.DEFAULT_GW),
       RouteCmd(update_cmd(r), Net0, c.WG_CLIENT),
       RouteCmd(update_cmd(r), Net128, c.WG_CLIENT) >>

\* mutant: down names the default route where up names 0.0.0.0/1
PlanDownDefault(r, c) ==
    << RouteCmd(update_cmd(r), IF r = "down" THEN TokDefault ELSE Net0,
                c.WG_CLIENT),
       RouteCmd(update_cmd(r), Net128, c.WG_CLIENT),
       RouteCmd(update_cmd(r), c.WG_SERVER, c.DEFAULT_GW) >>

\* the list the for loop runs over
Plan(r, c) ==
    << RouteCmd(update_cmd(r), Net0, c.WG_CLIENT),
       RouteCmd(update_cmd(r), Net128, c.WG_CLIENT),
       RouteCmd(update_cmd(r), c.WG_SERVER, c.DEFAULT_GW) >>

\* mutant: the words of the marker anywhere in the line, in any position
ContainsAnywhere(line, marker) ==
    \A i \in 1..Len(marker) : \E k \in 1..Len(line) : line[k] = marker[i]

\* 'marker' in line, a line and a marker being sequences of words
Contains(line, marker) ==
    \E k \in 0..(Len(line) - Len(marker)) :
        \A i \in 1..Len(marker) : line[k + i] = marker[i]

FileExists == <<"File", "exists">>
NotInTable == <<"not", "in", "table">>

\* mutant: each direction looks for the other direction's marker
FoundErrSwapped(r, out) ==
    IF r = "up" THEN \E i \in 1..Len(out) : Contains(out[i], NotInTable)
    ELSE IF r = "down" THEN \E i \in 1..Len(out) : Contains(out[i], FileExists)
    ELSE FALSE

found_err(r, out) ==
    IF r = "up" THEN \E i \in 1..Len(out) : Contains(out[i], FileExists)
    ELSE IF r = "down" THEN \E i \in 1..Len(out) : Contains(out[i], NotInTable)
    ELSE FALSE

\* run_cmd reports a non-zero exit status together with the output
NonZeroReported(es) == es # 0

\* What the program makes of one command: the marker of its direction is
\* printed as the idempotent no-op, any other non-zero exit status is the
\* "[-] Non-zero exit status" report, and everything else passes in silence.
Outcome(r, es, out) ==
    IF found_err(r, out)
    THEN (IF r = "up" THEN "AlreadyPresent" ELSE "AlreadyAbsent")
    ELSE IF NonZeroReported(es) THEN "MutationFailed"
    ELSE "Ok"

\* mutant: the loop is left at the first non-zero exit status
LoopDoneOnFailure(res) == Len(res) = 3 \/ res[Len(res)].es # 0

\* the loop ends when the list is exhausted
LoopDone(res) == Len(res) = 3

-----------------------------------------------------------------------------
(* The `route` command of the OS, as run_cmd() sees it *)

\* how netstat prints the destination a route command names
NetstatDest(d) ==
    IF d = Net0 THEN Tok01 ELSE IF d = Net128 THEN Tok128 ELSE d

HasDest(tbl, d) == \E i \in 1..Len(tbl) : tbl[i].dest = d

WithoutDest(tbl, d) == SelectSeq(tbl, LAMBDA row : row.dest # d)

FlagsUGSc == <<"U", "G", "S", "c">>

OutFileExists ==
    << <<"route:", "writing", "to", "routing", "socket:", "File", "exists">>,
       <<"add", "net:", "gateway:", "File", "exists">> >>
OutNotInTable ==
    << <<"route:", "writing", "to", "routing", "socket:", "not", "in",
         "table">>,
       <<"delete", "net:", "gateway:", "not", "in", "table">> >>
OutUnreachable ==
    << <<"route:", "writing", "to", "routing", "socket:", "Network", "is",
         "unreachable">>,
       <<"add", "net:", "gateway:", "Network", "is", "unreachable">> >>
OutAdded   == << <<"add", "net:", "gateway:">> >>
OutDeleted == << <<"delete", "net:", "gateway:">> >>

\* the kernel accepts the write a command attempts, or refuses it
OsFailures == {"none", "refused"}

\* subprocess.call of one route command: exit status, output lines and the
\* routing table it leaves
RouteExec(tbl, cmd, fail) ==
    LET d == NetstatDest(cmd.dest) IN
    IF cmd.op = "add"
    THEN IF HasDest(tbl, d)
         THEN [es |-> 0, out |-> OutFileExists, table |-> tbl]
         ELSE IF fail = "none"
         THEN [es |-> 0, out |-> OutAdded,
               table |-> Append(tbl, Row(d, cmd.gw, FlagsUGSc))]
         ELSE [es |-> 1, out |-> OutUnreachable, table |-> tbl]
    ELSE IF ~HasDest(tbl, d)
         THEN [es |-> 0, out |-> OutNotInTable, table |-> tbl]
         ELSE [es |-> 0, out |-> OutDeleted, table |-> WithoutDest(tbl, d)]

-----------------------------------------------------------------------------
(* The addresses, config files and routing tables the model starts from *)

ClientIP == IP(<<"1", "0">>, <<"1">>, <<"1">>, <<"2">>)
ServerIP == IP(<<"2">>, <<"2">>, <<"2">>, <<"2">>)
GwIP     == IP(<<"9">>, <<"9">>, <<"9">>, <<"1">>)
Gw2IP    == IP(<<"9">>, <<"9">>, <<"9">>, <<"2">>)
OtherIP  == IP(<<"1", "0">>, <<"1">>, <<"1">>, <<"7">>)
LoopIP   == IP(<<"1", "2", "7">>, <<"0">>, <<"0">>, <<"1">>)
HostVm   == <<"v", "m">>
HostQuad == ClientIP \o <<".", "i", "o">>   \* a name that contains a quad
IPv6Lo   == <<":", ":", "1">>
Link4    == <<"l", "i", "n", "k", "#", "4">>
Absent   == <<>>

DnsAnswers == {ClientIP, OtherIP}

ConfFile(c, s, g) == [WG_CLIENT |-> c, WG_SERVER |-> s, DEFAULT_GW |-> g]

\* as write_config() writes them: client and server always, the default
\* gateway only when --default-gw was given
Files ==
    {ConfFile(c, ServerIP, Absent) : c \in {ClientIP, HostVm, HostQuad, IPv6Lo}}
        \cup {ConfFile(ClientIP, ServerIP, GwIP)}

RowDefault  == Row(TokDefault, GwIP, FlagsUGSc)
RowDefault2 == Row(TokDefault, Gw2IP, FlagsUGSc)
RowNoG      == Row(TokDefault, GwIP, <<"U", "S">>)
RowNoU      == Row(TokDefault, GwIP, <<"G", "S">>)
RowNoGU     == Row(TokDefault, GwIP, <<"S", "c">>)
RowLink     == Row(TokDefault, Link4, <<"U", "C", "S">>)
RowLoop     == Row(LoopIP, LoopIP, <<"U", "H">>)
RowForeign  == Row(Tok01, OtherIP, FlagsUGSc)

InitTables ==
    { <<RowDefault, RowLoop>>,
      <<RowLink, RowDefault2>>,
      <<RowNoG, RowLoop>>,
      <<RowDefault, RowForeign>> }

EmptyConf == ConfFile(Absent, Absent, Absent)

NoRun == [rcmd |-> "none", conf |-> EmptyConf,
          results |-> <<>>, table0 |-> <<>>, err |-> NoErr]

-----------------------------------------------------------------------------
(* main() *)

Init ==
    /\ table \in InitTables
    /\ file \in Files
    /\ pc = "idle"
    /\ rcmd = "none"
    /\ conf = EmptyConf
    /\ results = <<>>
    /\ found = NoFound
    /\ err = NoErr
    /\ table0 = table
    /\ prev = NoRun
    /\ arg = <<>>
    /\ ret = <<>>

\* main() is entered with one of the commands up, down and status
Invoke(c) ==
    /\ pc = "idle"
    /\ pc' = "parse"
    /\ rcmd' = c
    /\ conf' = EmptyConf
    /\ results' = <<>>
    /\ found' = NoFound
    /\ err' = NoErr
    /\ table0' = table
    /\ prev' = [rcmd |-> rcmd, conf |-> conf,
                results |-> results, table0 |-> table0, err |-> err]
    /\ UNCHANGED <<table, file, arg, ret>>

\* parse_config(): the three values in the order the file lists them, then
\* the default gateway from the routing table when the file names none
ParsedConfig(f, tbl, ansC, ansS, ansG) ==
    LET rc == resolve(f.WG_CLIENT, ansC)
        rs == resolve(f.WG_SERVER, ansS)
        rg == IF f.DEFAULT_GW = Absent THEN get_default_gw(tbl)
              ELSE resolve(f.DEFAULT_GW, ansG)
        gw == IF f.DEFAULT_GW = Absent THEN rg.gw ELSE rg.ip
    IN  IF ~rc.ok THEN [ok |-> FALSE, err |-> rc.err, conf |-> EmptyConf]
        ELSE IF ~rs.ok THEN [ok |-> FALSE, err |-> rs.err, conf |-> EmptyConf]
        ELSE IF ~rg.ok THEN [ok |-> FALSE, err |-> rg.err, conf |-> EmptyConf]
        ELSE [ok |-> TRUE, err |-> NoErr, conf |-> ConfFile(rc.ip, rs.ip, gw)]

ParseConfig ==
    /\ pc = "parse"
    /\ \E ansC, ansS, ansG \in DnsAnswers \cup {NoAnswer} :
          LET p == ParsedConfig(file, table, ansC, ansS, ansG) IN
          /\ conf' = p.conf
          /\ err' = p.err
          /\ pc' = IF ~p.ok THEN "idle"
                   ELSE IF rcmd = "status" THEN "status" ELSE "update"
    /\ UNCHANGED <<table, file, rcmd, results, found, table0, prev,
                   arg, ret>>

\* mutant: a command that fails puts the routing table back as it was
RouteUpdateStepRollback ==
    /\ pc = "update"
    /\ \E fail \in OsFailures :
          LET cmd == Plan(rcmd, conf)[Len(results) + 1]
              r   == RouteExec(table, cmd, fail)
              res == Append(results,
                        [cmd |-> cmd, es |-> r.es, out |-> r.out,
                         found_err |-> found_err(rcmd, r.out)])
          IN  /\ results' = res
              /\ table' = IF r.es # 0 THEN table0 ELSE r.table
              /\ pc' = IF LoopDone(res) THEN "idle" ELSE "update"
    /\ UNCHANGED <<file, rcmd, conf, found, err, table0, prev, arg, ret>>

\* one pass of the for loop of route_update(); the function returns after
\* the last one
RouteUpdateStep ==
    /\ pc = "update"
    /\ \E fail \in OsFailures :
          LET cmd == Plan(rcmd, conf)[Len(results) + 1]
              r   == RouteExec(table, cmd, fail)
              res == Append(results,
                        [cmd |-> cmd, es |-> r.es, out |-> r.out,
                         found_err |-> found_err(rcmd, r.out)])
          IN  /\ results' = res
              /\ table' = r.table
              /\ pc' = IF LoopDone(res) THEN "idle" ELSE "update"
    /\ UNCHANGED <<file, rcmd, conf, found, err, table0, prev, arg, ret>>

\* route_status(): reads the table, reports, returns
RouteStatus ==
    /\ pc = "status"
    /\ found' = route_status(table, conf)
    /\ pc' = "idle"
    /\ UNCHANGED <<table, file, rcmd, conf, results, err, table0, prev,
                   arg, ret>>

Next ==
    \/ \E c \in {"up", "down", "status"} : Invoke(c)
    \/ ParseConfig
    \/ RouteUpdateStep
    \/ RouteStatus

Spec == Init /\ [][Next]_vars

-----------------------------------------------------------------------------
(* The functions on their own: each is applied once to an input drawn from   *)
(* a bounded set                                                             *)

MaxRows     == 3      \* rows of a routing table given to a function
MaxOutLines == 2      \* output lines of a command given to the classifier

SeqsUpTo(S, n) == UNION {[1..k -> S] : k \in 0..n}

MainIdle ==
    /\ table = <<>>
    /\ file = ConfFile(ClientIP, ServerIP, Absent)
    /\ rcmd = "none"
    /\ conf = EmptyConf
    /\ results = <<>>
    /\ found = NoFound
    /\ err = NoErr
    /\ table0 = <<>>
    /\ prev = NoRun

mainVars == <<table, file, rcmd, conf, results, found, err, table0, prev>>

(* get_default_gw() over routing tables *)

GwRows == {RowDefault, RowDefault2, RowNoG, RowNoU, RowNoGU, RowLink, RowLoop}

InitGw ==
    /\ MainIdle
    /\ pc = "call"
    /\ arg \in SeqsUpTo(GwRows, MaxRows)
    /\ ret = <<>>

CallGetDefaultGw ==
    /\ pc = "call"
    /\ ret' = get_default_gw(arg)
    /\ pc' = "returned"
    /\ UNCHANGED <<arg, mainVars>>

SpecGw == InitGw /\ [][CallGetDefaultGw]_vars

(* route_status() over routing tables *)

FlagsUGScI == <<"U", "G", "S", "c", "I">>
FlagsUGHS  == <<"U", "G", "H", "S">>

StatusRows ==
    {Row(Tok01, ClientIP, FlagsUGSc), Row(Tok01, ClientIP, FlagsUGScI),
     Row(Tok128, ClientIP, FlagsUGSc), Row(Tok128, ClientIP, FlagsUGScI),
     Row(ServerIP, GwIP, FlagsUGHS), Row(ServerIP, GwIP, FlagsUGScI),
     RowForeign, RowDefault}

StatusConfs ==
    {ConfFile(ClientIP, ServerIP, GwIP), ConfFile(OtherIP, ServerIP, Gw2IP)}

InitStatus ==
    /\ MainIdle
    /\ pc = "call"
    /\ arg \in {[table |-> t, conf |-> c] :
                   t \in SeqsUpTo(StatusRows, MaxRows), c \in StatusConfs}
    /\ ret = <<>>

CallRouteStatus ==
    /\ pc = "call"
    /\ ret' = route_status(arg.table, arg.conf)
    /\ pc' = "returned"
    /\ UNCHANGED <<arg, mainVars>>

SpecStatus == InitStatus /\ [][CallRouteStatus]_vars

(* the treatment of one command's exit status and output in route_update() *)

LineNotExists    == <<"File", "does", "not", "exist">>
LineNotInRouting == <<"not", "in", "routing", "table">>

OutputLines ==
    {OutFileExists[1], OutNotInTable[2], OutUnreachable[1], OutAdded[1],
     LineNotExists, LineNotInRouting}

\* the lines among them that report an error
ErrorLines ==
    {OutFileExists[1], OutNotInTable[2], OutUnreachable[1], LineNotExists,
     LineNotInRouting}

ExitCodes == {0, 1, 77}

InitClassify ==
    /\ MainIdle
    /\ pc = "call"
    /\ arg \in {[rcmd |-> r, es |-> e, out |-> o] :
                   r \in {"up", "down"}, e \in ExitCodes,
                   o \in SeqsUpTo(OutputLines, MaxOutLines)}
    /\ ret = <<>>

CallClassify ==
    /\ pc = "call"
    /\ ret' = [found_err |-> found_err(arg.rcmd, arg.out),
               nonzero   |-> NonZeroReported(arg.es),
               outcome   |-> Outcome(arg.rcmd, arg.es, arg.out)]
    /\ pc' = "returned"
    /\ UNCHANGED <<arg, mainVars>>

SpecClassify == InitClassify /\ [][CallClassify]_vars

-----------------------------------------------------------------------------
(* Properties *)

\* a syntactically valid IPv4 address: four decimal octets 0..255, nothing else
OctetOk(s, a, b) ==
    /\ b - a \in 0..2
    /\ \A k \in a..b : s[k] \in Digits
    /\ (IF b - a = 0 THEN DigitVal(s[a])
        ELSE IF b - a = 1 THEN 10 * DigitVal(s[a]) + DigitVal(s[b])
        ELSE 100 * DigitVal(s[a]) + 10 * DigitVal(s[a + 1]) + DigitVal(s[b]))
       <= 255

IsDottedQuad(s) ==
    \E p1, p2, p3 \in 1..Len(s) :
        /\ p1 < p2 /\ p2 < p3
        /\ s[p1] = "." /\ s[p2] = "." /\ s[p3] = "."
        /\ OctetOk(s, 1, p1 - 1) /\ OctetOk(s, p1 + 1, p2 - 1)
        /\ OctetOk(s, p2 + 1, p3 - 1) /\ OctetOk(s, p3 + 1, Len(s))

Min(S) == CHOOSE i \in S : \A j \in S : i <= j
Max(S) == CHOOSE i \in S : \A j \in S : i >= j

(* ---- main(): up, down, status ---- *)

OutcomeOf(r, res) == Outcome(r, res.es, res.out)

\* the kernel made the change the command asked for
Applied(res) ==
    /\ res.es = 0
    /\ res.out = IF res.cmd.op = "add" THEN OutAdded ELSE OutDeleted

\* the row netstat lists for a route that a command added
RowOf(cmd) == Row(NetstatDest(cmd.dest), cmd.gw, FlagsUGSc)

\* the table has a route for one of the three managed destinations
ManagedDestIn(tbl, c) ==
    HasDest(tbl, Tok01) \/ HasDest(tbl, Tok128) \/ HasDest(tbl, c.WG_SERVER)

\* the invocation was an up or a down and has returned
UpdateReturned == pc = "idle" /\ rcmd \in {"up", "down"} /\ err = NoErr

\* the invocation before the current one was an up that returned
PrevUpReturned ==
    prev.rcmd = "up" /\ prev.err = NoErr /\ Len(prev.results) = 3

(* ---- C1 ---- *)

ExpectedRoutes(c) ==
    << [dest |-> Net0,        gw |-> c.WG_CLIENT],
       [dest |-> Net128,      gw |-> c.WG_CLIENT],
       [dest |-> c.WG_SERVER, gw |-> c.DEFAULT_GW] >>

RouteOf(cmd) == [dest |-> cmd.dest, gw |-> cmd.gw]

\* C1: the commands of an up are three adds, of 0.0.0.0/1 via the client,
\* 128.0.0.0/1 via the client and the server via the default gateway, in this
\* order; the commands of a down with the same config are the deletes of the
\* same three routes in the same order.
C1_PlanIsThreeRoutesInOrder ==
    /\ \A i \in 1..Len(results) :
          /\ RouteOf(results[i].cmd) = ExpectedRoutes(conf)[i]
          /\ results[i].cmd.op = IF rcmd = "up" THEN "add" ELSE "delete"
    /\ UpdateReturned => Len(results) = 3
    /\ (UpdateReturned /\ rcmd = "down" /\ PrevUpReturned /\ prev.conf = conf)
          => \A i \in 1..3 :
                /\ prev.results[i].cmd.op = "add"
                /\ results[i].cmd.op = "delete"
                /\ RouteOf(prev.results[i].cmd) = RouteOf(results[i].cmd)

C1_Witness ==
    /\ UpdateReturned /\ rcmd = "down" /\ PrevUpReturned /\ prev.conf = conf
    /\ results[3].cmd = RouteCmd("delete", ServerIP, GwIP)
    /\ prev.results[1].cmd = RouteCmd("add", Net0, ClientIP)

(* ---- C2 ---- *)

\* C2: when an up whose three routes all went in (added or already there)
\* is followed by an up with the same config, each of the three commands of
\* the second up is an AlreadyPresent and none is a MutationFailed.
C2_SecondUpAlreadyPresent ==
    (/\ UpdateReturned /\ rcmd = "up" /\ Len(results) = 3
     /\ PrevUpReturned /\ prev.conf = conf
     /\ \A i \in 1..3 :
           OutcomeOf("up", prev.results[i]) \in {"Ok", "AlreadyPresent"})
        => \A i \in 1..3 : OutcomeOf(rcmd, results[i]) = "AlreadyPresent"

C2_Witness ==
    /\ UpdateReturned /\ rcmd = "up" /\ Len(results) = 3
    /\ PrevUpReturned /\ prev.conf = conf
    /\ \A i \in 1..3 : Applied(prev.results[i])
    /\ \A i \in 1..3 : results[i].found_err /\ results[i].es = 0

(* ---- C3 ---- *)

C5_AllThreeAttemptedInOrder ==
    /\ Len(results) <= 3
    /\ pc = "update" => Len(results) < 3
    /\ UpdateReturned => Len(results) = 3
    /\ rcmd \in {"up", "down"} =>
          \A i \in 1..Len(results) : results[i].cmd = Plan(rcmd, conf)[i]

C5_Witness ==
    /\ UpdateReturned /\ rcmd = "up" /\ Len(results) = 3
    /\ OutcomeOf(rcmd, results[1]) = "MutationFailed"
    /\ OutcomeOf(rcmd, results[2]) = "AlreadyPresent"
    /\ OutcomeOf(rcmd, results[3]) = "Ok"

(* ---- C6 ---- *)

C8_ConfigIsDottedQuads ==
    pc \in {"update", "status"} =>
        /\ IsDottedQuad(conf.WG_CLIENT)
        /\ IsDottedQuad(conf.WG_SERVER)
        /\ IsDottedQuad(conf.DEFAULT_GW)

(* ---- C10 ---- *)

\* C10: an up from a table without a route for any managed destination,
\* followed by a down with the same config, every add and every delete
\* being carried out, leaves the table as it was before the up; and a
\* status leaves the table as it found it.
C10_UpThenDownRestoresTable ==
    /\ (/\ UpdateReturned /\ rcmd = "down" /\ Len(results) = 3
        /\ PrevUpReturned /\ prev.conf = conf
        /\ ~ManagedDestIn(prev.table0, conf)
        /\ \A i \in 1..3 : Applied(prev.results[i]) /\ Applied(results[i]))
          => table = prev.table0
    /\ rcmd = "status" => table = table0

C10_Witness ==
    /\ UpdateReturned /\ rcmd = "down" /\ Len(results) = 3
    /\ PrevUpReturned /\ prev.conf = conf
    /\ \A i \in 1..3 : Applied(prev.results[i]) /\ Applied(results[i])
    /\ table0 = <<RowLink, RowDefault2, Row(Tok01, ClientIP, FlagsUGSc),
                  Row(Tok128, ClientIP, FlagsUGSc),
                  Row(ServerIP, Gw2IP, FlagsUGSc)>>
    /\ table = <<RowLink, RowDefault2>>

(* ---- C4 ---- *)

HasLineIn(out, S) == \E i \in 1..Len(out) : out[i] \in S

\* the lines of OutputLines that contain 'File exists' / 'not in table'
AddMarked    == {OutFileExists[1]}
DeleteMarked == {OutNotInTable[2]}

GwVerdict(tbl, rows) ==
    IF rows = {}
    THEN ~ret.ok /\ ret.err = "CouldNotParse"
    ELSE LET r == tbl[Min(rows)] IN
         IF {"G", "U"} \subseteq Range(r.flags)
         THEN ret.ok /\ ret.gw = r.gw
         ELSE /\ ~ret.ok
              /\ ret.err = "MissingFlag"
              /\ ret.flag \in {"G", "U"} \ Range(r.flags)

\* C7 as stated: the first row whose destination is `default` decides: its
\* gateway is returned when its flags hold G and U, a flags error names a
\* missing flag otherwise, and without a `default` row there is no gateway.
C7_FirstDefaultRowDecides ==
    pc = "returned" =>
        GwVerdict(arg, {i \in 1..Len(arg) : arg[i].dest = TokDefault})

\* C7 amended: the row that decides is the first `default` row whose gateway
\* column is an IPv4 address; `default` rows with another gateway are passed
\* over, and when both flags are missing the error names G.
C7_FirstIPv4DefaultRowDecides ==
    pc = "returned" =>
        LET rows == {i \in 1..Len(arg) :
                        arg[i].dest = TokDefault /\ IsDottedQuad(arg[i].gw)}
        IN  /\ GwVerdict(arg, rows)
            /\ (rows # {} /\ "G" \notin Range(arg[Min(rows)].flags))
                   => ret.flag = "G"

C7_Witness ==
    /\ pc = "returned"
    /\ arg = <<RowLink, RowNoGU, RowDefault>>
    /\ ret.err = "MissingFlag"
    /\ ret.flag = "G"

(* ---- C9 ---- *)

Matching1(a) == {i \in 1..Len(a.table) : MatchH1(a.table[i], a.conf)}
Matching2(a) == {i \in 1..Len(a.table) : MatchH2(a.table[i], a.conf)}
Matching3(a) == {i \in 1..Len(a.table) : MatchGw(a.table[i], a.conf)}

OnePatternPerRow(a) ==
    /\ Matching1(a) \cap Matching2(a) = {}
    /\ Matching1(a) \cap Matching3(a) = {}
    /\ Matching2(a) \cap Matching3(a) = {}

FirstOf(tbl, rows) == IF rows = {} THEN NoRow ELSE tbl[Min(rows)]
LastOf(tbl, rows)  == IF rows = {} THEN NoRow ELSE tbl[Max(rows)]

\* C9 as stated: a row matches at most one of the three patterns, and the
\* row reported for a pattern is the first row of the table that matches it.
C9_FirstMatchReported ==
    pc = "returned" =>
        /\ OnePatternPerRow(arg)
        /\ ret.h1 = FirstOf(arg.table, Matching1(arg))
        /\ ret.h2 = FirstOf(arg.table, Matching2(arg))
        /\ ret.gw = FirstOf(arg.table, Matching3(arg))

\* C9 amended: a row matches at most one of the three patterns, and the row
\* reported for a pattern is the last row of the table that matches it.
C9_LastMatchReported ==
    pc = "returned" =>
        /\ OnePatternPerRow(arg)
        /\ ret.h1 = LastOf(arg.table, Matching1(arg))
        /\ ret.h2 = LastOf(arg.table, Matching2(arg))
        /\ ret.gw = LastOf(arg.table, Matching3(arg))

C9_Witness ==
    /\ pc = "returned"
    /\ arg.conf = ConfFile(ClientIP, ServerIP, GwIP)
    /\ arg.table = <<Row(Tok01, ClientIP, FlagsUGSc), RowForeign,
                     Row(Tok01, ClientIP, FlagsUGScI)>>
    /\ ret.h1 = Row(Tok01, ClientIP, FlagsUGScI)
    /\ ret.h2 = NoRow

=============================================================================
